---------------------------- MODULE Spec2Model ----------------------------
(***************************************************************************)
(* A model of skematicss (src/main.rs): a one-shot system summary.  main   *)
(* takes one snapshot of the host through sysinfo and whoami, assembles an *)
(* OutputInfo, and print_all_info lays the report lines out next to the    *)
(* fixed LOGO panel.                                                       *)
(*                                                                         *)
(* Representation.                                                         *)
(*  - A Rust String is a sequence of characters.  An ASCII character is a  *)
(*    one-character string; any other character is written by its code     *)
(*    point, "U+00E9", so that String::len (UTF-8 bytes) and the character *)
(*    count are different functions of the same value.                     *)
(*  - A u64 / usize (64-bit target) is its 8 bytes, most significant       *)
(*    first, so that the arithmetic keeps the width of the source: TLC's   *)
(*    own integers stop at 2^31 - 1.                                       *)
(*  - An i64 is a sign and a magnitude (a u64 of at most 2^63).            *)
(***************************************************************************)
EXTENDS Integers, Sequences, FiniteSets, TLC

(***************************************************************************)
(* Bounds of the model.                                                    *)
(***************************************************************************)
MaxOffset == 130
MaxDisks == 2
MaxTemps == 2
MaxNets == 2

(***************************************************************************)
(* Strings.                                                                *)
(***************************************************************************)
Chars(s) == [i \in 1..Len(s) |-> SubSeq(s, i, i)]

RECURSIVE HexValue(_)
HexValue(h) ==
  IF Len(h) = 0 THEN 0
  ELSE LET d == SubSeq(h, Len(h), Len(h))
           v == CASE d = "0" -> 0 [] d = "1" -> 1 [] d = "2" -> 2 [] d = "3" -> 3
                  [] d = "4" -> 4 [] d = "5" -> 5 [] d = "6" -> 6 [] d = "7" -> 7
                  [] d = "8" -> 8 [] d = "9" -> 9 [] d = "A" -> 10 [] d = "B" -> 11
                  [] d = "C" -> 12 [] d = "D" -> 13 [] d = "E" -> 14 [] d = "F" -> 15
       IN  16 * HexValue(SubSeq(h, 1, Len(h) - 1)) + v

\* The code point of a character that is not ASCII; every ASCII character
\* is below 128 and its exact code point is never needed.
CodePoint(c) == IF Len(c) = 1 THEN 0 ELSE HexValue(SubSeq(c, 3, Len(c)))

\* char::len_utf8
Utf8Len(c) ==
  LET cp == CodePoint(c)
  IN  IF cp < 128 THEN 1 ELSE IF cp < 2048 THEN 2 ELSE IF cp < 65536 THEN 3 ELSE 4

\* String::len: the length in bytes of the UTF-8 encoding
RECURSIVE StrLen(_)
StrLen(s) == IF s = <<>> THEN 0 ELSE Utf8Len(s[1]) + StrLen(Tail(s))

\* str::repeat
RECURSIVE Repeat(_, _)
Repeat(s, n) == IF n = 0 THEN <<>> ELSE s \o Repeat(s, n - 1)

Digit(d) == SubSeq("0123456789", d + 1, d + 1)

\* Display of a small non-negative integer
RECURSIVE FmtNat(_)
FmtNat(n) == IF n < 10 THEN <<Digit(n)>> ELSE FmtNat(n \div 10) \o <<Digit(n % 10)>>

\* Display of a small signed integer
FmtInt(n) == IF n < 0 THEN <<"-">> \o FmtNat(0 - n) ELSE FmtNat(n)

(***************************************************************************)
(* The fixed panel.                                                        *)
(***************************************************************************)
LOGO_HEIGHT == 9
LOGO_WIDTH == 32
LOGO == <<
      Chars("                               "),
      Chars("    #       #      *#*         "),
      Chars("    ##     ##      *#*         "),
      Chars("    #  # #  #      *#*         "),
      Chars("    #   #   #      *#*         "),
      Chars("    #       #      *#*         "),
      Chars("    #       #      *#*         "),
      Chars("    #       #      *#*         "),
      Chars("                               ")
>>

(***************************************************************************)
(* u64 arithmetic on 8 bytes, most significant first.                      *)
(***************************************************************************)
U64Zero == <<0, 0, 0, 0, 0, 0, 0, 0>>
U64Max == <<255, 255, 255, 255, 255, 255, 255, 255>>
I64Max == <<127, 255, 255, 255, 255, 255, 255, 255>>

\* the u64 of a number below 2^31
U64(n) == <<0, 0, 0, 0, (n \div 16777216) % 256, (n \div 65536) % 256,
            (n \div 256) % 256, n % 256>>

RECURSIVE DivLoop(_, _, _, _, _)
DivLoop(x, d, i, r, q) ==
  IF i > Len(x) THEN [q |-> q, r |-> r]
  ELSE LET cur == r * 256 + x[i]
       IN  DivLoop(x, d, i + 1, cur % d, Append(q, cur \div d))

\* x / d and x % d for a divisor below 2^23
DivU64(x, d) == DivLoop(x, d, 1, 0, <<>>).q
RemU64(x, d) == DivLoop(x, d, 1, 0, <<>>).r

RECURSIVE SubLoop(_, _, _, _, _)
SubLoop(x, y, i, borrow, acc) ==
  IF i = 0 THEN [v |-> acc, borrow |-> borrow]
  ELSE LET d == x[i] - y[i] - borrow
       IN  SubLoop(x, y, i - 1, IF d < 0 THEN 1 ELSE 0, <<(d + 256) % 256>> \o acc)

\* u64::wrapping_sub and the overflow flag of u64::overflowing_sub
WrappingSub(x, y) == SubLoop(x, y, Len(x), 0, <<>>).v
SubOverflows(x, y) == SubLoop(x, y, Len(x), 0, <<>>).borrow = 1

RECURSIVE MulAddLoop(_, _, _, _, _)
MulAddLoop(x, m, i, carry, acc) ==
  IF i = 0 THEN [v |-> acc, carry |-> carry]
  ELSE LET cur == x[i] * m + carry
       IN  MulAddLoop(x, m, i - 1, cur \div 256, <<cur % 256>> \o acc)

\* x * m + a modulo 2^64, for m and a below 2^23
MulAddU64(x, m, a) == MulAddLoop(x, m, Len(x), a, <<>>).v

RECURSIVE AddLoop(_, _, _, _, _)
AddLoop(x, y, i, carry, acc) ==
  IF i = 0 THEN [v |-> acc, carry |-> carry]
  ELSE LET cur == x[i] + y[i] + carry
       IN  AddLoop(x, y, i - 1, cur \div 256, <<cur % 256>> \o acc)

\* u64::wrapping_add
WrappingAdd(x, y) == AddLoop(x, y, Len(x), 0, <<>>).v

RECURSIVE LessLoop(_, _, _)
LessLoop(x, y, i) ==
  IF i > Len(x) THEN FALSE
  ELSE IF x[i] # y[i] THEN x[i] < y[i] ELSE LessLoop(x, y, i + 1)

LtU64(x, y) == LessLoop(x, y, 1)

\* Display of a u64
RECURSIVE DecU64(_)
DecU64(x) ==
  IF x = U64Zero THEN <<>> ELSE DecU64(DivU64(x, 10)) \o <<Digit(RemU64(x, 10))>>

FmtU64(x) == IF x = U64Zero THEN <<"0">> ELSE DecU64(x)

(***************************************************************************)
(* i64 and chrono::Duration, as convert_unix_to_human_string uses them.    *)
(***************************************************************************)
\* `unix_time as i64`: the same 64 bits read as two's complement
AsI64(x) ==
  IF x[1] < 128 THEN [neg |-> FALSE, mag |-> x]
  ELSE [neg |-> TRUE, mag |-> WrappingSub(U64Zero, x)]

\* Duration::seconds panics outside the range a Duration can hold, which
\* is i64::MAX milliseconds on either side of zero.
MaxDurationSecs == DivU64(I64Max, 1000)
DurationSecondsPanics(secs) == LtU64(MaxDurationSecs, secs.mag)

\* i64 division: truncates towards zero
TruncDiv(v, d) ==
  LET q == DivU64(v.mag, d) IN [neg |-> v.neg /\ q # U64Zero, mag |-> q]

\* Duration::num_days, num_hours, num_minutes of a whole number of seconds
num_days(duration) == TruncDiv(duration, 86400)
num_hours(duration) == TruncDiv(duration, 3600)
num_minutes(duration) == TruncDiv(duration, 60)

\* i64 remainder by a small positive modulus: takes the sign of the dividend
RemI64(v, m) == IF v.neg THEN 0 - RemU64(v.mag, m) ELSE RemU64(v.mag, m)

\* Display of an i64
FmtI64(v) == IF v.neg THEN <<"-">> \o FmtU64(v.mag) ELSE FmtU64(v.mag)

Returned(v) == [ok |-> TRUE, val |-> v]
Panicked == [ok |-> FALSE, val |-> <<>>]

convert_unix_to_human_string(unix_time) ==
  LET duration == AsI64(unix_time)
      days == num_days(duration)
      hours == RemI64(num_hours(duration), 24)
      minutes == RemI64(num_minutes(duration), 60)
  IN  IF DurationSecondsPanics(duration) THEN Panicked
      ELSE IF ~days.neg /\ days.mag # U64Zero
        THEN Returned(FmtI64(days) \o Chars("d ") \o FmtInt(hours) \o Chars("h ")
                        \o FmtInt(minutes) \o Chars("m"))
      ELSE IF hours > 0
        THEN Returned(FmtInt(hours) \o Chars("h ") \o FmtInt(minutes) \o Chars("m"))
      ELSE Returned(FmtInt(minutes) \o Chars("m"))

(***************************************************************************)
(* What the platform can report (sysinfo, whoami).                         *)
(***************************************************************************)
Some(v) == [some |-> TRUE, val |-> v]
None == [some |-> FALSE, val |-> <<>>]

\* n GiB and n MiB as byte counts
GiB(n) == MulAddU64(U64(n * 1024), 1048576, 0)
MiB(n) == MulAddU64(U64(n), 1048576, 0)

Usernames == {Chars("alice"), <<"z", "o", "U+00EB">>}
\* whoami::fallible::hostname: Err is None here
HostnameResults == {None, Some(Chars("box"))}
OsNames == {Chars("TestOS")}
\* System::kernel_version
KernelVersions == {None, Some(Chars("1.0"))}
\* System::uptime, in seconds since boot: the uptime of a running host,
\* far below the i64::MAX / 1000 seconds a chrono Duration can hold
Uptimes == {U64(3661), U64(90000)}

\* A mount point and a file-system name are raw bytes: "0xFF" stands for a
\* byte that is not valid UTF-8.  statvfs does not promise f_bavail <=
\* f_blocks, and sysinfo passes both on unchecked.
DiskPool == {
  [mount_point |-> Chars("/"), total_space |-> GiB(10), available_space |-> GiB(5),
   file_system |-> Chars("ext4")],
  [mount_point |-> Chars("/"), total_space |-> WrappingAdd(GiB(931), MiB(200)),
   available_space |-> WrappingAdd(GiB(30), MiB(900)),
   file_system |-> <<"b", "t", "0xFF", "r">>],
  [mount_point |-> Chars("/mnt"), total_space |-> U64Zero, available_space |-> GiB(1),
   file_system |-> Chars("fuse")] }

\* An f32 reading is a whole number of eighths of a degree (every such
\* value is exactly an f32), or NaN when the probe failed.
Celsius(e) == [nan |-> FALSE, eighths |-> e]
NaN == [nan |-> TRUE, eighths |-> 0]

ComponentPool == {
  [label |-> Chars("cpu"), temperature |-> Celsius(343)],
  [label |-> Chars("gpu"), temperature |-> NaN] }

NetworkPool == {
  [interface_name |-> Chars("lo"), total_transmitted |-> MiB(3),
   total_received |-> WrappingAdd(MiB(3), U64(1048575)),
   packets_transmitted |-> U64(12), packets_received |-> U64(12)],
  [interface_name |-> Chars("eth0"), total_transmitted |-> GiB(2000000),
   total_received |-> U64Max, packets_transmitted |-> U64(70000),
   packets_received |-> U64Zero] }

\* the sequences of at most n different elements of S
Listings(S, n) ==
  UNION { { f \in [1..k -> S] : \A i, j \in 1..k : f[i] = f[j] => i = j } :
          k \in 0..n }

\* the orders in which a HashMap can hand out its keys
Orders(S) == { f \in [1..Cardinality(S) -> S] : \A k \in S : \E i \in DOMAIN f : f[i] = k }

Systems ==
  [kernel_version : KernelVersions,
   uptime : Uptimes,
   disks : Listings(DiskPool, MaxDisks),
   components : Listings(ComponentPool, MaxTemps),
   networks : { N \in SUBSET NetworkPool : Cardinality(N) <= MaxNets }]

(***************************************************************************)
(* The collectors.                                                         *)
(***************************************************************************)
EmptyMap == <<>>

\* HashMap::insert
Insert(map, key, value) ==
  [k \in DOMAIN map \cup {key} |-> IF k = key THEN value ELSE map[k]]

\* to_string_lossy, from_utf8_lossy: an invalid byte becomes U+FFFD
Lossy(bytes) == [i \in DOMAIN bytes |-> IF Len(bytes[i]) = 4 THEN "U+FFFD" ELSE bytes[i]]

get_hostname(result) == IF result.some THEN result.val ELSE Chars("unknown")

kernel(sys) == IF sys.kernel_version.some THEN sys.kernel_version.val ELSE Chars("unknown")

get_uptime(sys) == sys.uptime

\* x / 1024 / 1024 / 1024
Gigabytes(x) == DivU64(DivU64(DivU64(x, 1024), 1024), 1024)

\* x / 1024 / 1024
Megabytes(x) == DivU64(DivU64(x, 1024), 1024)

\* the DiskInfo of one disk
DiskEntry(disk) ==
  [mount_point |-> Lossy(disk.mount_point),
   total_space_gb |-> Gigabytes(disk.total_space),
   used_space_gb |-> Gigabytes(WrappingSub(disk.total_space, disk.available_space)),
   filesystem |-> Lossy(disk.file_system)]

\* total - available overflows: a panic where the build checks overflow
\* (debug), a wrapped difference where it does not (release)
RECURSIVE DiskLoop(_, _, _, _)
DiskLoop(disks, i, disk_info_map, checks) ==
  IF i > Len(disks) THEN Returned(disk_info_map)
  ELSE IF checks /\ SubOverflows(disks[i].total_space, disks[i].available_space)
    THEN Panicked
  ELSE DiskLoop(disks, i + 1,
                Insert(disk_info_map, Lossy(disks[i].mount_point), DiskEntry(disks[i])),
                checks)

get_disk_info(sys, checks) == DiskLoop(sys.disks, 1, EmptyMap, checks)

RECURSIVE ComponentLoop(_, _, _)
ComponentLoop(components, i, temp_info_map) ==
  IF i > Len(components) THEN temp_info_map
  ELSE ComponentLoop(components, i + 1,
         Insert(temp_info_map, components[i].label,
                [label |-> components[i].label,
                 temperature_celsius |-> components[i].temperature]))

get_temperature_info(sys) == ComponentLoop(sys.components, 1, EmptyMap)

get_network_info(sys) ==
  [name \in { n.interface_name : n \in sys.networks } |->
     LET network == CHOOSE n \in sys.networks : n.interface_name = name
     IN  [interface_name |-> name,
          bytes_sent |-> network.total_transmitted,
          bytes_received |-> network.total_received,
          packets_sent |-> network.packets_transmitted,
          packets_received |-> network.packets_received]]

(***************************************************************************)
(* The renderer.                                                           *)
(***************************************************************************)
\* {:.1} of an f32: the nearest tenth, a tie to the even one
FmtF32(t) ==
  IF t.nan THEN Chars("NaN")
  ELSE LET m == IF t.eighths < 0 THEN 0 - t.eighths ELSE t.eighths
           q == (m * 10) \div 8
           r == (m * 10) % 8
           tenths == IF r > 4 \/ (r = 4 /\ q % 2 = 1) THEN q + 1 ELSE q
       IN  (IF t.eighths < 0 THEN <<"-">> ELSE <<>>)
             \o FmtNat(tenths \div 10) \o <<".", Digit(tenths % 10)>>

SeparatorLine(output_info) ==
  Repeat(<<"-">>, StrLen(output_info.username) + StrLen(output_info.hostname) + 1)

HeaderLines(output_info, human) ==
  << output_info.username \o <<"@">> \o output_info.hostname,
     SeparatorLine(output_info),
     Chars("OS:        ") \o output_info.os,
     Chars("Kernel:    ") \o output_info.kernel,
     Chars("Uptime:    ") \o human >>

DiskLine(mount_point, disk_info) ==
  Chars("Disk:      ") \o mount_point \o Chars(" - ") \o FmtU64(disk_info.used_space_gb)
    \o Chars(" GB used / ") \o FmtU64(disk_info.total_space_gb)
    \o Chars(" GB total, FS: ") \o disk_info.filesystem

\* the literal of line 186 holds U+00C2 U+00B0 before the C
TempLine(label, temp_info) ==
  Chars("Temp:      ") \o label \o Chars(" - ") \o FmtF32(temp_info.temperature_celsius)
    \o <<"U+00C2", "U+00B0", "C">>

NetworkLine(interface_name, network_info) ==
  Chars("Network:   ") \o interface_name \o Chars(" - ")
    \o FmtU64(Megabytes(network_info.bytes_sent)) \o Chars(" MB sent, ")
    \o FmtU64(Megabytes(network_info.bytes_received)) \o Chars(" MB recv, ")
    \o FmtU64(network_info.packets_sent) \o Chars(" pkts sent, ")
    \o FmtU64(network_info.packets_received) \o Chars(" pkts recv")

\* the vec! and the three loops that push onto it; each loop walks its
\* HashMap in the order the map hands out
ReportLines(output_info, human, disk_order, temp_order, net_order) ==
  HeaderLines(output_info, human)
    \o [i \in 1..Len(disk_order) |->
          DiskLine(disk_order[i], output_info.disks[disk_order[i]])]
    \o [i \in 1..Len(temp_order) |->
          TempLine(temp_order[i], output_info.temperatures[temp_order[i]])]
    \o [i \in 1..Len(net_order) |->
          NetworkLine(net_order[i], output_info.networks[net_order[i]])]

\* PanelRow with the padding of the rows below the panel one space short
PanelRowShortPadding(idx, line) ==
  IF idx < LOGO_HEIGHT THEN LOGO[idx + 1] \o line
  ELSE Repeat(<<" ">>, LOGO_WIDTH - 1) \o line

\* one turn of the loop of lines 201-207; idx counts from 0
PanelRow(idx, line) ==
  IF idx < LOGO_HEIGHT THEN LOGO[idx + 1] \o line
  ELSE Repeat(<<" ">>, LOGO_WIDTH) \o line

\* TrailingRows starting one row late
TrailingRowsSkipOne(n) ==
  IF n < LOGO_HEIGHT THEN [j \in 1..(LOGO_HEIGHT - n - 1) |-> LOGO[n + 1 + j]] ELSE <<>>

\* the loop of lines 208-212 over a vec of n lines
TrailingRows(n) ==
  IF n < LOGO_HEIGHT THEN [j \in 1..(LOGO_HEIGHT - n) |-> LOGO[n + j]] ELSE <<>>

\* what the println! calls of print_all_info write, a line each; println!() writes <<>>
Printed(output_info_vec) ==
  << <<>> >>
    \o [i \in 1..Len(output_info_vec) |-> PanelRow(i - 1, output_info_vec[i])]
    \o TrailingRows(Len(output_info_vec))
    \o << <<>> >>

(***************************************************************************)
(* The program: main, one action for each call it makes.                   *)
(***************************************************************************)
VARIABLES
  pc,               \* the call main makes next; "done" or "panic in ..." at the end
  overflow_checks,  \* whether the build checks integer overflow
  sys,              \* the System snapshot
  output_info,      \* the fields of OutputInfo, filled in source order
  output_info_vec,  \* print_all_info's vec of report lines
  stdout,           \* the lines written so far
  hostname_result,  \* what whoami::fallible::hostname returned
  unix_time,        \* the argument of a call of convert_unix_to_human_string
  human             \* what that call returned

vars ==
  <<pc, overflow_checks, sys, output_info, output_info_vec, stdout, hostname_result,
    unix_time, human>>

NoSystem ==
  [kernel_version |-> None, uptime |-> U64Zero, disks |-> <<>>, components |-> <<>>,
   networks |-> {}]

NoOutputInfo ==
  [username |-> <<>>, hostname |-> <<>>, os |-> <<>>, kernel |-> <<>>, uptime |-> U64Zero,
   disks |-> EmptyMap, temperatures |-> EmptyMap, networks |-> EmptyMap]

Init ==
  /\ pc = "main"
  /\ overflow_checks \in BOOLEAN
  /\ sys = NoSystem
  /\ output_info = NoOutputInfo
  /\ output_info_vec = <<>>
  /\ stdout = <<>>
  /\ hostname_result = None
  /\ unix_time = U64Zero
  /\ human = Panicked

\* System::new_all and the three refresh calls: the snapshot
NewAll ==
  /\ pc = "main"
  /\ \E s \in Systems : sys' = s
  /\ pc' = "get_username"
  /\ UNCHANGED <<overflow_checks, output_info, output_info_vec, stdout, hostname_result,
                 unix_time, human>>

GetUsername ==
  /\ pc = "get_username"
  /\ \E name \in Usernames : output_info' = [output_info EXCEPT !.username = name]
  /\ pc' = "get_hostname"
  /\ UNCHANGED <<overflow_checks, sys, output_info_vec, stdout, hostname_result, unix_time,
               human>>

GetHostname ==
  /\ pc = "get_hostname"
  /\ \E result \in HostnameResults :
       /\ hostname_result' = result
       /\ output_info' = [output_info EXCEPT !.hostname = get_hostname(result)]
  /\ pc' = "get_os_name"
  /\ UNCHANGED <<overflow_checks, sys, output_info_vec, stdout, unix_time, human>>

GetOsName ==
  /\ pc = "get_os_name"
  /\ \E name \in OsNames : output_info' = [output_info EXCEPT !.os = name]
  /\ pc' = "kernel"
  /\ UNCHANGED <<overflow_checks, sys, output_info_vec, stdout, hostname_result, unix_time,
               human>>

Kernel ==
  /\ pc = "kernel"
  /\ output_info' = [output_info EXCEPT !.kernel = kernel(sys)]
  /\ pc' = "get_uptime"
  /\ UNCHANGED <<overflow_checks, sys, output_info_vec, stdout, hostname_result, unix_time,
               human>>

GetUptime ==
  /\ pc = "get_uptime"
  /\ output_info' = [output_info EXCEPT !.uptime = get_uptime(sys)]
  /\ pc' = "get_disk_info"
  /\ UNCHANGED <<overflow_checks, sys, output_info_vec, stdout, hostname_result, unix_time,
               human>>

GetDiskInfo ==
  /\ pc = "get_disk_info"
  /\ LET r == get_disk_info(sys, overflow_checks)
     IN  IF r.ok
           THEN /\ output_info' = [output_info EXCEPT !.disks = r.val]
                /\ pc' = "get_temperature_info"
           ELSE /\ output_info' = output_info
                /\ pc' = "panic in get_disk_info"
  /\ UNCHANGED <<overflow_checks, sys, output_info_vec, stdout, hostname_result, unix_time,
               human>>

GetTemperatureInfo ==
  /\ pc = "get_temperature_info"
  /\ output_info' = [output_info EXCEPT !.temperatures = get_temperature_info(sys)]
  /\ pc' = "get_network_info"
  /\ UNCHANGED <<overflow_checks, sys, output_info_vec, stdout, hostname_result, unix_time,
               human>>

GetNetworkInfo ==
  /\ pc = "get_network_info"
  /\ output_info' = [output_info EXCEPT !.networks = get_network_info(sys)]
  /\ pc' = "print_all_info"
  /\ UNCHANGED <<overflow_checks, sys, output_info_vec, stdout, hostname_result, unix_time,
               human>>

PrintAllInfo ==
  /\ pc = "print_all_info"
  /\ \E disk_order \in Orders(DOMAIN output_info.disks),
        temp_order \in Orders(DOMAIN output_info.temperatures),
        net_order \in Orders(DOMAIN output_info.networks) :
       /\ unix_time' = output_info.uptime
       /\ human' = convert_unix_to_human_string(unix_time')
       /\ IF human'.ok
            THEN /\ output_info_vec' =
                      ReportLines(output_info, human'.val, disk_order, temp_order, net_order)
                 /\ stdout' = Printed(output_info_vec')
                 /\ pc' = "done"
            ELSE /\ output_info_vec' = <<>>
                 /\ stdout' = <<>>
                 /\ pc' = "panic in print_all_info"
  /\ UNCHANGED <<overflow_checks, sys, output_info, hostname_result>>

Next ==
  \/ NewAll
  \/ GetUsername
  \/ GetHostname
  \/ GetOsName
  \/ Kernel
  \/ GetUptime
  \/ GetDiskInfo
  \/ GetTemperatureInfo
  \/ GetNetworkInfo
  \/ PrintAllInfo

Spec == Init /\ [][Next]_vars

(***************************************************************************)
(* convert_unix_to_human_string on its own, over the whole of usize: the   *)
(* small values, and the values around the ends of the ranges of Duration, *)
(* of i64 and of usize.                                                    *)
(***************************************************************************)
SecondsAnchors ==
  { U64Zero, U64(3540), U64(86340), U64(89900),
    WrappingSub(MaxDurationSecs, U64(60)),
    WrappingSub(I64Max, U64(60)),
    WrappingSub(WrappingSub(U64Zero, MaxDurationSecs), U64(60)),
    WrappingSub(U64Max, U64(90000)),
    WrappingSub(U64Max, U64(3700)),
    WrappingSub(U64Max, U64(120)) }

SecondsInputs == { WrappingAdd(a, U64(k)) : a \in SecondsAnchors, k \in 0..MaxOffset }

FmtInit ==
  /\ pc = "convert"
  /\ overflow_checks = FALSE
  /\ sys = NoSystem
  /\ output_info = NoOutputInfo
  /\ output_info_vec = <<>>
  /\ stdout = <<>>
  /\ hostname_result = None
  /\ unix_time \in SecondsInputs
  /\ human = Panicked

Convert ==
  /\ pc = "convert"
  /\ human' = convert_unix_to_human_string(unix_time)
  /\ pc' = "converted"
  /\ UNCHANGED <<overflow_checks, sys, output_info, output_info_vec, stdout,
                 hostname_result, unix_time>>

FmtNext == Convert

FmtSpec == FmtInit /\ [][FmtNext]_vars

(***************************************************************************)
(* The properties.                                                         *)
(***************************************************************************)
Collected == pc \in {"print_all_info", "done", "panic in print_all_info"}

Spaces(n) == [j \in 1..n |-> " "]

\* the number of characters of a string, whatever their width in bytes
CharCount(s) == Len(s)

LeU64(x, y) == ~LtU64(y, x)

Max(a, b) == IF a > b THEN a ELSE b

\* C1: once print_all_info has run, printed row i (after the leading blank
\* line) is LOGO[i] followed directly by report line i for every i up to
\* LOGO_HEIGHT, and LOGO_WIDTH spaces followed by report line i for every i
\* beyond; every report line is printed once, in the order of the vec.
C1_Pairing ==
  pc = "done" =>
    /\ Len(stdout) = Max(Len(output_info_vec), LOGO_HEIGHT) + 2
    /\ \A i \in 1..Len(output_info_vec) :
         stdout[i + 1] =
           (IF i <= LOGO_HEIGHT THEN LOGO[i] ELSE Spaces(LOGO_WIDTH)) \o output_info_vec[i]

C1_Witness == pc = "done" /\ Len(output_info_vec) > LOGO_HEIGHT

\* C2: LOGO has LOGO_HEIGHT rows, each LOGO_WIDTH characters wide, so that
\* every report line, beside a panel row or below the panel, starts at
\* column LOGO_WIDTH of its printed row.
C2_PanelWidth ==
  pc = "done" =>
    /\ Len(LOGO) = LOGO_HEIGHT
    /\ \A i \in 1..Len(LOGO) : CharCount(LOGO[i]) = LOGO_WIDTH
    /\ \A i \in 1..Len(output_info_vec) :
         CharCount(stdout[i + 1]) = LOGO_WIDTH + CharCount(output_info_vec[i])

\* the form the specification selects for s seconds
SelectedForm(s) ==
  LET days == DivU64(s, 86400)
      hours == RemU64(DivU64(s, 3600), 24)
      minutes == RemU64(DivU64(s, 60), 60)
  IN  IF days # U64Zero
        THEN FmtU64(days) \o Chars("d ") \o FmtNat(hours) \o Chars("h ")
               \o FmtNat(minutes) \o Chars("m")
      ELSE IF hours > 0 THEN FmtNat(hours) \o Chars("h ") \o FmtNat(minutes) \o Chars("m")
      ELSE FmtNat(minutes) \o Chars("m")

\* C3: for every seconds value s the formatter returns "{days}d {hours}h
\* {minutes}m" when days > 0, else "{hours}h {minutes}m" when hours > 0, else
\* "{minutes}m", with days = s/86400, hours = (s/3600) mod 24, minutes =
\* (s/60) mod 60; 0 and 59 give "0m", 60 "1m", 3600 "1h 0m", 3661 "1h 1m",
\* 90000 "1d 1h 0m".
C3_Selection ==
  pc = "converted" =>
    /\ human.ok
    /\ human.val = SelectedForm(unix_time)
    /\ unix_time = U64(0) => human.val = Chars("0m")
    /\ unix_time = U64(59) => human.val = Chars("0m")
    /\ unix_time = U64(60) => human.val = Chars("1m")
    /\ unix_time = U64(3600) => human.val = Chars("1h 0m")
    /\ unix_time = U64(3661) => human.val = Chars("1h 1m")
    /\ unix_time = U64(90000) => human.val = Chars("1d 1h 0m")

IsDigit(c) == \E d \in 0..9 : Digit(d) = c
DigitValue(c) == CHOOSE d \in 0..9 : Digit(d) = c

NoNumber == [neg |-> FALSE, mag |-> U64Zero]

\* reads "{n}d {n}h {n}m" with any of the components missing: the number
\* before each unit letter, 0 for a unit that is not there
RECURSIVE ParseLoop(_, _, _, _)
ParseLoop(s, i, cur, acc) ==
  IF i > Len(s) THEN acc
  ELSE IF s[i] = "-" THEN ParseLoop(s, i + 1, [cur EXCEPT !.neg = TRUE], acc)
  ELSE IF IsDigit(s[i])
    THEN ParseLoop(s, i + 1, [cur EXCEPT !.mag = MulAddU64(cur.mag, 10, DigitValue(s[i]))],
                   acc)
  ELSE IF s[i] \in {"d", "h", "m"}
    THEN ParseLoop(s, i + 1, NoNumber, [acc EXCEPT ![s[i]] = cur])
  ELSE ParseLoop(s, i + 1, cur, acc)

Parse(s) == ParseLoop(s, 1, NoNumber, [u \in {"d", "h", "m"} |-> NoNumber])

\* days*1440 + hours*60 + minutes = total, the components being signed
Reconstructs(parsed, total) ==
  LET Part(u, scale, positive) ==
        IF parsed[u].neg = positive THEN U64Zero ELSE MulAddU64(parsed[u].mag, scale, 0)
      Sum(positive) ==
        WrappingAdd(WrappingAdd(Part("d", 1440, positive), Part("h", 60, positive)),
                    Part("m", 1, positive))
  IN  Sum(TRUE) = WrappingAdd(Sum(FALSE), total)

\* C4: for every seconds value s, the days, hours and minutes read back
\* from the formatter's output give days*1440 + hours*60 + minutes = s / 60.
C4_RoundTrip ==
  pc = "converted" =>
    /\ human.ok
    /\ Reconstructs(Parse(human.val), DivU64(unix_time, 60))

\* Where Duration::seconds accepts the argument as it stands, the formatter
\* returns the selected form and the round trip gives s / 60: C3 and C4
\* hold of every s up to i64::MAX / 1000.
InDurationRange == ~LtU64(MaxDurationSecs, unix_time)

SelectionInDurationRange ==
  (pc = "converted" /\ InDurationRange) =>
    /\ human.ok
    /\ human.val = SelectedForm(unix_time)
    /\ Reconstructs(Parse(human.val), DivU64(unix_time, 60))

\* C5: for every value of usize the formatter returns a string, and no
\* number in it is negative.
C5_Total ==
  pc = "converted" =>
    /\ human.ok
    /\ \A i \in 1..Len(human.val) : human.val[i] # "-"

\* C6: the separator line is len(username) + len(hostname) + 1 dashes, len
\* counting characters.
C6_SeparatorWidth ==
  pc = "done" =>
    output_info_vec[2] =
      Repeat(<<"-">>, CharCount(output_info.username) + CharCount(output_info.hostname) + 1)

DisksCollected == Collected \/ pc \in {"get_temperature_info", "get_network_info"}

\* C7: every DiskInfo that get_disk_info put in the map has used_space_gb
\* <= total_space_gb.
C7_UsedLeTotal ==
  DisksCollected =>
    \A k \in DOMAIN output_info.disks :
      LeU64(output_info.disks[k].used_space_gb, output_info.disks[k].total_space_gb)

\* C8: whatever the platform reports, collection does not panic and the run
\* reaches print_all_info; a failed hostname lookup gives "unknown", a
\* missing kernel version gives "unknown", an absent category an empty map.
C8_CollectionNeverFails ==
  /\ pc # "panic in get_disk_info"
  /\ Collected =>
       /\ ~hostname_result.some => output_info.hostname = Chars("unknown")
       /\ ~sys.kernel_version.some => output_info.kernel = Chars("unknown")
       /\ sys.disks = <<>> => DOMAIN output_info.disks = {}
       /\ sys.components = <<>> => DOMAIN output_info.temperatures = {}
       /\ sys.networks = {} => DOMAIN output_info.networks = {}

LineCount ==
  5 + Cardinality(DOMAIN output_info.disks) + Cardinality(DOMAIN output_info.temperatures)
    + Cardinality(DOMAIN output_info.networks)

NoEntries ==
  /\ DOMAIN output_info.disks = {}
  /\ DOMAIN output_info.temperatures = {}
  /\ DOMAIN output_info.networks = {}

DegreeLine(temp_info) ==
  Chars("Temp:      ") \o temp_info.label \o Chars(" - ")
    \o FmtF32(temp_info.temperature_celsius) \o <<"U+00B0", "C">>

\* C10: the report holds, after the disk lines and before the network
\* lines, one line for each temperature entry and no other, of the form
\* "Temp:      {label} - {reading to one decimal}" followed by the degree
\* sign and C, nothing else.
C10_TempLine ==
  pc = "done" =>
    LET first == 5 + Cardinality(DOMAIN output_info.disks)
        count == Cardinality(DOMAIN output_info.temperatures)
    IN  /\ \A label \in DOMAIN output_info.temperatures :
             Cardinality({ i \in 1..Len(output_info_vec) :
                             output_info_vec[i] = DegreeLine(output_info.temperatures[label]) })
               = 1
        /\ \A i \in (first + 1)..(first + count) :
             \E label \in DOMAIN output_info.temperatures :
               output_info_vec[i] = DegreeLine(output_info.temperatures[label])

=============================================================================
